---- MODULE Spec2Model ----
(***************************************************************************)
(* Model of the lookup engine of src/engine/movie.go: SearchMovie,         *)
(* SearchMovieAll (lazy cache path, fan-out over the registered providers, *)
(* deferred post-processing) and GetMovieInfoByID (cache read, provider    *)
(* fetch, deferred auto-save).                                             *)
(*                                                                         *)
(* Strings are sequences of one-character strings, so that trimming and    *)
(* UPPER() are computed.  Weights are integers: Similarity is scaled to    *)
(* 0..2 and Priority to small naturals.                               *)
(***************************************************************************)
EXTENDS Integers, Sequences, FiniteSets, TLC

\* ------------------------------------------------------------------ bounds
\* Largest number of rows the store holds before the first call.
MaxSeed == 1
\* Rows the store has room for: an upsert that would add a row to a full
\* store fails (and the engine ignores the failure).
MaxRows == 2

\* ----------------------------------------------------------------- strings
Empty == <<>>
Str(c) == <<c>>

UpperChar(c) == IF c = "a" THEN "A" ELSE IF c = "b" THEN "B" ELSE c
LowerChar(c) == IF c = "A" THEN "a" ELSE IF c = "B" THEN "b" ELSE c

\* SQL UPPER(), used by the case-insensitive cache queries.
Upper(s) == [i \in DOMAIN s |-> UpperChar(s[i])]
Lower(s) == [i \in DOMAIN s |-> LowerChar(s[i])]

RECURSIVE TrimLeft(_)
TrimLeft(s) == IF s # Empty /\ Head(s) = " " THEN TrimLeft(Tail(s)) ELSE s

RECURSIVE TrimRight(_)
TrimRight(s) ==
    IF s # Empty /\ s[Len(s)] = " " THEN TrimRight(SubSeq(s, 1, Len(s) - 1)) ELSE s

\* number.Trim: the keyword without its surrounding blanks.
Trim(s) == TrimRight(TrimLeft(s))

\* ----------------------------------------------------------------- records
\* model.MovieInfo, reduced to the fields the engine looks at.
Info(p, i, n) == [provider |-> p, id |-> i, number |-> n]

\* new(model.MovieInfo), also standing for the nil *MovieInfo of a failure.
ZeroInfo == Info("", Empty, Empty)

\* MovieInfo.Valid / MovieSearchResult.Valid: ID and number are non-empty.
Valid(r) == r.id # Empty /\ r.number # Empty

\* MovieInfo.ToSearchResult: the projection keeps provider, ID and number.
ToSearchResult(info) == Info(info.provider, info.id, info.number)

Key(r) == <<r.provider, r.id>>

\* ------------------------------------------------------------------ errors
Nil == "nil"
ErrInvalidKeyword == "ErrInvalidKeyword"
ErrInvalidID == "ErrInvalidID"
ErrNotFound == "ErrNotFound"
ErrProviderNotFound == "provider not found"
ErrProvider == "provider error"
Panic == "panic: nil provider"

\* --------------------------------------------------------------- providers
\* Providers that exist; "Z" is a name that is never registered.
ProviderNames == {"A", "C"}
UnknownNames == {"Z"}

\* provider.(javtube.MovieSearcher): "C" only fetches by ID.
IsSearcher(p) == p = "A"

\* provider.Priority(), as an integer multiplier.
Priority(p) == IF p = "C" THEN 2 ELSE 1

HasBlank(s) == \E i \in DOMAIN s : s[i] = " "

\* provider.NormalizeID: canonical (lower-case) ID, empty when rejected.
NormalizeID(p, raw) == IF raw = Empty \/ HasBlank(raw) THEN Empty ELSE Lower(raw)

\* number.Similarity scaled to 0..2: 2 for a match that ignores case, 1 when
\* only the first characters agree, 0 otherwise.
Similarity(keyword, number) ==
    IF Upper(keyword) = Upper(number) THEN 2
    ELSE IF keyword # Empty /\ number # Empty
            /\ UpperChar(keyword[1]) = UpperChar(number[1]) THEN 1
    ELSE 0

\* ------------------------------------------------------------------- store
\* UPPER(number) = UPPER(?) OR UPPER(id) = UPPER(?)
MatchKeyword(r, keyword) ==
    Upper(r.number) = Upper(keyword) \/ Upper(r.id) = Upper(keyword)

\* The all-provider cache query of SearchMovieAll, rows in storage order.
FindByKeyword(st, keyword) == SelectSeq(st, LAMBDA r : MatchKeyword(r, keyword))

\* The single-provider cache query of searchMovie.
FindByProviderKeyword(st, p, keyword) ==
    SelectSeq(st, LAMBDA r : r.provider = p /\ MatchKeyword(r, keyword))

\* The exact cache query of getMovieInfoByID.
FindByProviderID(st, p, id) ==
    SelectSeq(st, LAMBDA r : r.provider = p /\ r.id = id)

\* A plain insert, without the conflict clause.
Upsert_Insert(st, info) == Append(st, info)

\* Create with OnConflict{UpdateAll}: the row of the same (provider, id) is
\* overwritten in place, otherwise the row is added.
Upsert(st, info) ==
    IF \E i \in DOMAIN st : Key(st[i]) = Key(info)
    THEN [i \in DOMAIN st |-> IF Key(st[i]) = Key(info) THEN info ELSE st[i]]
    ELSE Append(st, info)

\* How an upsert may end: it fails when the store cannot take it.
HasKey(st, k) == \E i \in DOMAIN st : Key(st[i]) = k
WriteStatus(st, info) ==
    IF HasKey(st, Key(info)) \/ Len(st) < MaxRows THEN {"ok", "fail"} ELSE {"fail"}

\* Rows a store may hold before the first call: a valid row of a searcher, a
\* valid row of the fetch-only provider, a row that is not valid, and a row
\* of a provider that is no longer registered.
SeedInfos ==
    { Info("A", Str("a"), Str("b")),
      Info("C", Str("a"), Str("b")),
      Info("A", Str("A"), Empty),
      Info("Z", Str("a"), Str("B")) }

RECURSIVE SeqsUpTo(_, _)
SeqsUpTo(S, n) ==
    IF n = 0 THEN {Empty}
    ELSE LET shorter == SeqsUpTo(S, n - 1)
         IN  shorter \cup {Append(q, x) : q \in shorter, x \in S}

NoDuplicateKey(st) ==
    \A i, j \in DOMAIN st : Key(st[i]) = Key(st[j]) => i = j

SeedStores == {st \in SeqsUpTo(SeedInfos, MaxSeed) : NoDuplicateKey(st)}

\* -------------------------------------------------------- provider answers
Outcome(results, info, err) == [results |-> results, info |-> info, err |-> err]
NoOutcome == Outcome(Empty, ZeroInfo, Nil)

\* What provider.GetMovieInfoByID(id) may answer: an error, or an Info about
\* the requested ID under the provider's own name, which may fail validation.
FetchOutcomes(p, id) ==
    { Outcome(Empty, ZeroInfo, ErrProvider),
      Outcome(Empty, Info(p, id, Str("b")), Nil),
      Outcome(Empty, Info(p, id, Str("B")), Nil),
      Outcome(Empty, Info(p, id, Empty), Nil),
      Outcome(Empty, Info(p, Empty, Str("b")), Nil) }

\* What searcher.SearchMovie(keyword) may answer: an error, no result, or a
\* list of results under the provider's own name, some of which may fail
\* validation.
SearchOutcomes(p) ==
    LET exact == Info(p, Str("a"), Str("b"))
        near == Info(p, Str("b"), <<"b", "a">>)
        bad == Info(p, Str("a"), Empty)
    IN  { Outcome(Empty, ZeroInfo, ErrProvider),
          Outcome(Empty, ZeroInfo, Nil),
          Outcome(<<exact>>, ZeroInfo, Nil),
          Outcome(<<bad>>, ZeroInfo, Nil),
          Outcome(<<near, exact>>, ZeroInfo, Nil),
          Outcome(<<bad, near>>, ZeroInfo, Nil) }

\* ----------------------------------------------------------------- ranking
\* number.Similarity(keyword, result.Number) * provider.Priority()
Weight(keyword, r) == Similarity(keyword, r.number) * Priority(r.provider)

\* An insertion that puts a result before those of equal weight.
RECURSIVE InsertByWeight_Unstable(_, _, _)
InsertByWeight_Unstable(keyword, sorted, r) ==
    IF sorted = Empty THEN <<r>>
    ELSE IF Weight(keyword, Head(sorted)) > Weight(keyword, r)
         THEN <<Head(sorted)>> \o InsertByWeight_Unstable(keyword, Tail(sorted), r)
         ELSE <<r>> \o sorted

\* priority.Slice.Sort: descending weight, equal weights keep append order.
RECURSIVE InsertByWeight(_, _, _)
InsertByWeight(keyword, sorted, r) ==
    IF sorted = Empty THEN <<r>>
    ELSE IF Weight(keyword, Head(sorted)) >= Weight(keyword, r)
         THEN <<Head(sorted)>> \o InsertByWeight(keyword, Tail(sorted), r)
         ELSE <<r>> \o sorted

RECURSIVE SortByWeight(_, _)
SortByWeight(keyword, rs) ==
    IF rs = Empty THEN Empty
    ELSE InsertByWeight(keyword,
                        SortByWeight(keyword, SubSeq(rs, 1, Len(rs) - 1)),
                        rs[Len(rs)])

\* ------------------------------------------------------------------- state
Callers == {"c1", "c2"}
Main == "main"
\* One thread per caller, plus one goroutine per provider for its fan-out.
Threads == Callers \X ({Main} \cup ProviderNames)
MainOf(c) == <<c, Main>>
TaskOf(c, p) == <<c, p>>
IsTask(t) == t[2] # Main

\* Keywords and IDs the callers pass.
Keywords == {Empty, Str(" "), <<" ", "a">>, Str("b")}
RawIDs == {Empty, <<"a", " ">>, Str("A")}
Names == ProviderNames \cup UnknownNames

VARIABLES
    movieProviders, \* e.movieProviders: the names that are registered
    store,          \* e.db: the rows, in storage order
    lastWritten,    \* history: the last Info this engine upserted, per key
    pc,             \* where each thread is
    frame,          \* the arguments and locals of each thread's call
    out,            \* the values each thread's call returns
    seen,           \* history: what the cache query of a caller's thread found
    wrote,          \* history: how the auto-save of a caller's thread went
    invoked,        \* history: provider capabilities invoked during the call
    closed,         \* respCh is closed
    atCall,         \* history: the store as it was when caller c1's call began
    prev            \* history (SpecTwice): c1's previous call, if it fetched and saved

vars == <<movieProviders, store, lastWritten, pc, frame, out, seen, wrote,
          invoked, closed, atCall, prev>>

\* op: the operation the thread runs; raw: the keyword or ID as passed;
\* keyword: the trimmed keyword; id: the normalized ID.
Frame(op, raw, keyword, id, name, lazy) ==
    [op |-> op, raw |-> raw, keyword |-> keyword, id |-> id, name |-> name,
     lazy |-> lazy]
NoFrame == Frame("none", Empty, Empty, Empty, "", FALSE)

\* q: "ok" or "fail" (result.Error of a query that could not run); rows: the
\* rows that matched; first: the row First() loaded.
Seen(q, rows, first) == [q |-> q, rows |-> rows, first |-> first]
NotSeen == Seen("none", Empty, ZeroInfo)

Step(next, o) == [pc |-> next, out |-> o]

\* The histories seen and wrote are kept for the callers' own threads.
Observe(h, t, v) == IF IsTask(t) THEN h ELSE [h EXCEPT ![t] = v]

\* A lazy GetMovieInfoByID(raw, name) that fetched a valid Info from the
\* provider and saved it, with the number of provider calls it made.
\* fresh: the store held no row when that call began.
PrevCall(raw, name, info, calls, fresh) ==
    [raw |-> raw, name |-> name, info |-> info, calls |-> calls, fresh |-> fresh]
NoPrev == PrevCall(Empty, "", ZeroInfo, 0, FALSE)

Init ==
    /\ movieProviders = ProviderNames
    /\ store \in SeedStores
    /\ lastWritten = {}
    /\ pc = [t \in Threads |-> "idle"]
    /\ frame = [t \in Threads |-> NoFrame]
    /\ out = [t \in Threads |-> NoOutcome]
    /\ seen = [t \in Threads |-> NotSeen]
    /\ wrote = [t \in Threads |-> "none"]
    /\ invoked = [c \in Callers |-> Empty]
    /\ closed = [c \in Callers |-> FALSE]
    /\ atCall = Empty
    /\ prev = NoPrev

Range(s) == {s[i] : i \in DOMAIN s}

\* What a query may report: it ran, or it could not (result.Error # nil).
QueryStatus == {"ok", "fail"}
RowsOf(q, rows) == IF q = "ok" THEN rows ELSE Empty
\* First(info): one of the matching rows, info stays zero when there is none.
FirstOf(rows) == IF rows = Empty THEN {ZeroInfo} ELSE Range(rows)

\* A cache query whose row is never taken.
CacheHit_Never(q, rows, info) == FALSE

\* result.Error == nil && info.Valid()
CacheHit(q, rows, info) == q = "ok" /\ rows # Empty /\ Valid(info)

\* An all-provider cache query whose rows are never taken.
CacheHitAll_Never(q, rows) == FALSE

\* An all-provider cache query whose failure ends the lookup.
CacheHitAll_OnError(q, rows) == q = "fail" \/ Len(rows) > 0

\* result.Error == nil && result.RowsAffected > 0
CacheHitAll(q, rows) == q = "ok" /\ Len(rows) > 0

\* An auto-save that runs whatever the fetch returned.
ShouldSave_Always(info, err) == TRUE

\* An auto-save that does not validate.
ShouldSave_Unchecked(info, err) == err = Nil

\* err == nil && info.Valid(), the condition of the delayed auto-save.
ShouldSave(info, err) == err = Nil /\ Valid(info)

\* The lazy argument searchMovie passes to getMovieInfoByID.
FallbackLazy == TRUE

\* The lazy argument searchMovieAll passes to searchMovie.
FanOutLazy == FALSE

\* A keyword that is not trimmed.
KeywordOf_Raw(raw) == raw

\* keyword = number.Trim(keyword)
KeywordOf(raw) == Trim(raw)

\* A registry that resolves every name.
Lookup_Any(name) == TRUE

\* provider, ok := e.movieProviders[name]
Lookup(name) == name \in movieProviders

\* Where a thread continues when its searchMovie returns: a goroutine of the
\* fan-out sends its response, a caller has its result.
AfterSearchMovie(t) == IF IsTask(t) THEN "send" ELSE "done"

\* getMovieInfoByID up to its cache query: normalize the ID, reject an empty
\* one, query the cache only when lazy.
GetInfoEntry(id, lazy, back) ==
    IF id = Empty THEN Step(back, Outcome(Empty, ZeroInfo, ErrInvalidID))
    ELSE Step(IF lazy THEN "gi_db" ELSE "gi_fetch", NoOutcome)

\* The return of getMovieInfoByID: GetMovieInfoByID hands (info, err) to its
\* caller; searchMovie returns the error, or wraps the Info as one result.
GetInfoReturn(t, op, info, err) ==
    IF op = "GetMovieInfoByID" THEN Step("done", Outcome(Empty, info, err))
    ELSE IF err # Nil THEN Step(AfterSearchMovie(t), Outcome(Empty, ZeroInfo, err))
    ELSE Step(AfterSearchMovie(t), Outcome(<<ToSearchResult(info)>>, ZeroInfo, Nil))

\* searchMovie up to its first cache query or provider call.
SearchMovieEntry(t, keyword, name, lazy) ==
    IF IsSearcher(name)
    THEN Step(IF lazy THEN "sm_db" ELSE "sm_search", NoOutcome)
    ELSE GetInfoEntry(NormalizeID(name, keyword), FallbackLazy, AfterSearchMovie(t))

\* A post-processing that filters but does not sort.
PostProcess_Unranked(keyword, results, err) ==
    IF err # Nil THEN Outcome(results, ZeroInfo, err)
    ELSE IF Len(results) = 0 THEN Outcome(Empty, ZeroInfo, ErrNotFound)
    ELSE LET valid == SelectSeq(results, Valid)
         IN  IF \E i \in DOMAIN valid : valid[i].provider \notin movieProviders
             THEN Outcome(Empty, ZeroInfo, Panic)
             ELSE Outcome(valid, ZeroInfo, Nil)

\* The deferred post-processing of SearchMovieAll.
PostProcess(keyword, results, err) ==
    IF err # Nil THEN Outcome(results, ZeroInfo, err)
    ELSE IF Len(results) = 0 THEN Outcome(Empty, ZeroInfo, ErrNotFound)
    ELSE LET valid == SelectSeq(results, Valid)
         IN  IF \E i \in DOMAIN valid : valid[i].provider \notin movieProviders
             THEN Outcome(Empty, ZeroInfo, Panic)
             ELSE Outcome(SortByWeight(keyword, valid), ZeroInfo, Nil)

\* ----------------------------------------------------------------- actions
\* SearchMovie: trim the keyword, resolve the provider, enter searchMovie.
CallSearchMovie(c, raw, name, lazy) ==
    LET t == MainOf(c)
        keyword == KeywordOf(raw)
        step == IF keyword = Empty
                THEN Step("done", Outcome(Empty, ZeroInfo, ErrInvalidKeyword))
                ELSE IF ~Lookup(name)
                THEN Step("done", Outcome(Empty, ZeroInfo, ErrProviderNotFound))
                ELSE SearchMovieEntry(t, keyword, name, lazy)
        id == IF keyword # Empty /\ Lookup(name) /\ ~IsSearcher(name)
              THEN NormalizeID(name, keyword) ELSE Empty
    IN  /\ pc[t] = "idle"
        /\ pc' = [pc EXCEPT ![t] = step.pc]
        /\ out' = [out EXCEPT ![t] = step.out]
        /\ frame' = [frame EXCEPT ![t] = Frame("SearchMovie", raw, keyword, id, name, lazy)]
        /\ UNCHANGED <<movieProviders, store, lastWritten, seen, wrote, invoked, closed>>

\* GetMovieInfoByID: resolve the provider, enter getMovieInfoByID.
CallGetMovieInfoByID(c, raw, name, lazy) ==
    LET t == MainOf(c)
        id == IF Lookup(name) THEN NormalizeID(name, raw) ELSE Empty
        step == IF ~Lookup(name)
                THEN Step("done", Outcome(Empty, ZeroInfo, ErrProviderNotFound))
                ELSE GetInfoEntry(id, lazy, "done")
    IN  /\ pc[t] = "idle"
        /\ pc' = [pc EXCEPT ![t] = step.pc]
        /\ out' = [out EXCEPT ![t] = step.out]
        /\ frame' = [frame EXCEPT ![t] = Frame("GetMovieInfoByID", raw, Empty, id, name, lazy)]
        /\ UNCHANGED <<movieProviders, store, lastWritten, seen, wrote, invoked, closed>>

\* searchMovie, the cache query of a lazy keyword search.
SearchMovieQuery(t) ==
    /\ pc[t] = "sm_db"
    /\ \E q \in QueryStatus :
         LET rows == RowsOf(q, FindByProviderKeyword(store, frame[t].name, frame[t].keyword))
         IN  \E info \in FirstOf(rows) :
               /\ seen' = Observe(seen, t, Seen(q, rows, info))
               /\ IF CacheHit(q, rows, info)
                  THEN /\ pc' = [pc EXCEPT ![t] = AfterSearchMovie(t)]
                       /\ out' = [out EXCEPT ![t] =
                                    Outcome(<<ToSearchResult(info)>>, ZeroInfo, Nil)]
                  ELSE /\ pc' = [pc EXCEPT ![t] = "sm_search"]
                       /\ out' = out
    /\ UNCHANGED <<movieProviders, store, lastWritten, frame, wrote, invoked, closed>>

\* A keyword search that saves the first result it gets.
SearchMovieSearch_Cache(t) ==
    /\ pc[t] = "sm_search"
    /\ \E o \in SearchOutcomes(frame[t].name) :
         /\ out' = [out EXCEPT ![t] = o]
         /\ store' = IF /\ o.err = Nil /\ o.results # Empty
                        /\ Valid(o.results[1])
                        /\ "ok" \in WriteStatus(store, o.results[1])
                     THEN Upsert(store, o.results[1]) ELSE store
    /\ pc' = [pc EXCEPT ![t] = AfterSearchMovie(t)]
    /\ invoked' = [invoked EXCEPT ![t[1]] = Append(@, <<frame[t].name, "search">>)]
    /\ UNCHANGED <<movieProviders, lastWritten, frame, seen, wrote, closed>>

\* searchMovie, the provider's keyword search; its answer is returned as is.
SearchMovieSearch(t) ==
    /\ pc[t] = "sm_search"
    /\ \E o \in SearchOutcomes(frame[t].name) :
         out' = [out EXCEPT ![t] = o]
    /\ pc' = [pc EXCEPT ![t] = AfterSearchMovie(t)]
    /\ invoked' = [invoked EXCEPT ![t[1]] = Append(@, <<frame[t].name, "search">>)]
    /\ UNCHANGED <<movieProviders, store, lastWritten, frame, seen, wrote, closed>>

\* getMovieInfoByID, the cache query of a lazy fetch.
GetInfoQuery(t) ==
    /\ pc[t] = "gi_db"
    /\ \E q \in QueryStatus :
         LET rows == RowsOf(q, FindByProviderID(store, frame[t].name, frame[t].id))
         IN  \E info \in FirstOf(rows) :
               /\ seen' = Observe(seen, t, Seen(q, rows, info))
               /\ IF CacheHit(q, rows, info)
                  THEN LET step == GetInfoReturn(t, frame[t].op, info, Nil)
                       IN  /\ pc' = [pc EXCEPT ![t] = step.pc]
                           /\ out' = [out EXCEPT ![t] = step.out]
                  ELSE /\ pc' = [pc EXCEPT ![t] = "gi_fetch"]
                       /\ out' = out
    /\ UNCHANGED <<movieProviders, store, lastWritten, frame, wrote, invoked, closed>>

\* getMovieInfoByID, the provider's fetch by ID.
GetInfoFetch(t) ==
    /\ pc[t] = "gi_fetch"
    /\ \E o \in FetchOutcomes(frame[t].name, frame[t].id) :
         out' = [out EXCEPT ![t] = o]
    /\ pc' = [pc EXCEPT ![t] = "gi_defer"]
    /\ invoked' = [invoked EXCEPT ![t[1]] = Append(@, <<frame[t].name, "fetch">>)]
    /\ UNCHANGED <<movieProviders, store, lastWritten, frame, seen, wrote, closed>>

\* A save whose failure is returned to the caller in place of the Info.
GetInfoSave_ReportWrite(t) ==
    LET info == out[t].info
        err == out[t].err
        step(w) == GetInfoReturn(t, frame[t].op,
                                 IF w = "fail" THEN ZeroInfo ELSE info,
                                 IF w = "fail" THEN "write error" ELSE err)
    IN  /\ pc[t] = "gi_defer"
        /\ IF ShouldSave(info, err)
           THEN \E w \in WriteStatus(store, info) :
                  /\ wrote' = Observe(wrote, t, w)
                  /\ store' = IF w = "ok" THEN Upsert(store, info) ELSE store
                  /\ lastWritten' =
                       IF w = "ok"
                       THEN {r \in lastWritten : Key(r) # Key(info)} \cup {info}
                       ELSE lastWritten
                  /\ pc' = [pc EXCEPT ![t] = step(w).pc]
                  /\ out' = [out EXCEPT ![t] = step(w).out]
           ELSE /\ UNCHANGED <<wrote, store, lastWritten>>
                /\ pc' = [pc EXCEPT ![t] = step("none").pc]
                /\ out' = [out EXCEPT ![t] = step("none").out]
        /\ UNCHANGED <<movieProviders, frame, seen, invoked, closed>>

\* getMovieInfoByID, the deferred auto-save and the return; the upsert may
\* fail, and its error is ignored.
GetInfoSave(t) ==
    LET info == out[t].info
        err == out[t].err
        step == GetInfoReturn(t, frame[t].op, info, err)
    IN  /\ pc[t] = "gi_defer"
        /\ IF ShouldSave(info, err)
           THEN \E w \in WriteStatus(store, info) :
                  /\ wrote' = Observe(wrote, t, w)
                  /\ store' = IF w = "ok" THEN Upsert(store, info) ELSE store
                  /\ lastWritten' =
                       IF w = "ok"
                       THEN {r \in lastWritten : Key(r) # Key(info)} \cup {info}
                       ELSE lastWritten
           ELSE UNCHANGED <<wrote, store, lastWritten>>
        /\ pc' = [pc EXCEPT ![t] = step.pc]
        /\ out' = [out EXCEPT ![t] = step.out]
        /\ UNCHANGED <<movieProviders, frame, seen, invoked, closed>>

\* SearchMovieAll: trim the keyword; the deferred post-processing is set up
\* only after an empty keyword was rejected.
CallSearchMovieAll(c, raw, lazy) ==
    LET t == MainOf(c)
        keyword == KeywordOf(raw)
        step == IF keyword = Empty
                THEN Step("done", Outcome(Empty, ZeroInfo, ErrInvalidKeyword))
                ELSE Step(IF lazy THEN "all_db" ELSE "all_fanout", NoOutcome)
    IN  /\ pc[t] = "idle"
        /\ pc' = [pc EXCEPT ![t] = step.pc]
        /\ out' = [out EXCEPT ![t] = step.out]
        /\ frame' = [frame EXCEPT ![t] = Frame("SearchMovieAll", raw, keyword, Empty, "", lazy)]
        /\ UNCHANGED <<movieProviders, store, lastWritten, seen, wrote, invoked, closed>>

\* SearchMovieAll, the lazy cache query: rows found are converted and
\* returned, and the deferred post-processing runs on them.
SearchAllQuery(c) ==
    LET t == MainOf(c)
    IN  /\ pc[t] = "all_db"
        /\ \E q \in QueryStatus :
             LET rows == RowsOf(q, FindByKeyword(store, frame[t].keyword))
                 results == [i \in DOMAIN rows |-> ToSearchResult(rows[i])]
             IN  /\ seen' = [seen EXCEPT ![t] = Seen(q, rows, ZeroInfo)]
                 /\ IF CacheHitAll(q, rows)
                    THEN /\ pc' = [pc EXCEPT ![t] = "done"]
                         /\ out' = [out EXCEPT ![t] =
                                      PostProcess(frame[t].keyword, results, Nil)]
                    ELSE /\ pc' = [pc EXCEPT ![t] = "all_fanout"]
                         /\ out' = out
        /\ UNCHANGED <<movieProviders, store, lastWritten, frame, wrote, invoked, closed>>

\* searchMovieAll: one goroutine per registered provider, each entering
\* searchMovie(keyword, provider, false).
FanOut(c) ==
    LET t == MainOf(c)
        keyword == frame[t].keyword
        entry(p) == SearchMovieEntry(TaskOf(c, p), keyword, p, FanOutLazy)
        launched(u) == u[1] = c /\ u[2] \in movieProviders
    IN  /\ pc[t] = "all_fanout"
        /\ pc' = [u \in Threads |->
                    IF u = t THEN "all_recv"
                    ELSE IF launched(u) THEN entry(u[2]).pc ELSE pc[u]]
        /\ out' = [u \in Threads |-> IF launched(u) THEN entry(u[2]).out ELSE out[u]]
        /\ frame' = [u \in Threads |->
                       IF launched(u)
                       THEN Frame("task", keyword, keyword,
                                  IF IsSearcher(u[2]) THEN Empty
                                  ELSE NormalizeID(u[2], keyword),
                                  u[2], FanOutLazy)
                       ELSE frame[u]]
        /\ UNCHANGED <<movieProviders, store, lastWritten, seen, wrote, invoked,
                       closed>>

\* A collection that a failed response empties.
Receive_Abort(c, p) ==
    LET t == MainOf(c)
        g == TaskOf(c, p)
    IN  /\ pc[t] = "all_recv"
        /\ pc[g] = "send"
        /\ pc' = [pc EXCEPT ![g] = "exit"]
        /\ out' = [out EXCEPT ![t].results =
                     IF out[g].err # Nil THEN Empty ELSE @ \o out[g].results]
        /\ UNCHANGED <<movieProviders, store, lastWritten, frame, seen, wrote,
                       invoked, closed>>

\* A collection that keeps the results of the first response that has any.
Receive_KeepFirst(c, p) ==
    LET t == MainOf(c)
        g == TaskOf(c, p)
    IN  /\ pc[t] = "all_recv"
        /\ pc[g] = "send"
        /\ pc' = [pc EXCEPT ![g] = "exit"]
        /\ out' = [out EXCEPT ![t].results =
                     IF out[g].err # Nil \/ @ # Empty THEN @ ELSE out[g].results]
        /\ UNCHANGED <<movieProviders, store, lastWritten, frame, seen, wrote,
                       invoked, closed>>

\* The range over respCh takes one goroutine's response: a failed one is
\* skipped, the results of the others are appended; the goroutine is done.
Receive(c, p) ==
    LET t == MainOf(c)
        g == TaskOf(c, p)
    IN  /\ pc[t] = "all_recv"
        /\ pc[g] = "send"
        /\ pc' = [pc EXCEPT ![g] = "exit"]
        /\ out' = [out EXCEPT ![t].results =
                     IF out[g].err # Nil THEN @ ELSE @ \o out[g].results]
        /\ UNCHANGED <<movieProviders, store, lastWritten, frame, seen, wrote,
                       invoked, closed>>

\* A closer that waits for a goroutine to finish before it looks at the
\* WaitGroup: it never closes respCh when no goroutine was launched.
CloseRespCh_NeedsTask(c) ==
    /\ pc[MainOf(c)] = "all_recv"
    /\ ~closed[c]
    /\ movieProviders # {}
    /\ \A p \in movieProviders : pc[TaskOf(c, p)] = "exit"
    /\ closed' = [closed EXCEPT ![c] = TRUE]
    /\ UNCHANGED <<movieProviders, store, lastWritten, pc, frame, out, seen,
                   wrote, invoked>>

\* A closer that does not wait for the goroutines.
CloseRespCh_Early(c) ==
    /\ pc[MainOf(c)] = "all_recv"
    /\ ~closed[c]
    /\ closed' = [closed EXCEPT ![c] = TRUE]
    /\ UNCHANGED <<movieProviders, store, lastWritten, pc, frame, out, seen,
                   wrote, invoked>>

\* wg.Wait() returns once every goroutine is done; respCh is closed.
CloseRespCh(c) ==
    /\ pc[MainOf(c)] = "all_recv"
    /\ ~closed[c]
    /\ \A p \in movieProviders : pc[TaskOf(c, p)] = "exit"
    /\ closed' = [closed EXCEPT ![c] = TRUE]
    /\ UNCHANGED <<movieProviders, store, lastWritten, pc, frame, out, seen,
                   wrote, invoked>>

\* The range ends on the closed channel; searchMovieAll returns the results
\* and the deferred post-processing of SearchMovieAll runs.
RangeEnd(c) ==
    LET t == MainOf(c)
    IN  /\ pc[t] = "all_recv"
        /\ closed[c]
        /\ pc' = [pc EXCEPT ![t] = "done"]
        /\ out' = [out EXCEPT ![t] = PostProcess(frame[t].keyword, out[t].results, Nil)]
        /\ UNCHANGED <<movieProviders, store, lastWritten, frame, seen, wrote,
                       invoked, closed>>

\* The caller takes the result; its next call starts afresh.
Return(c) ==
    /\ pc[MainOf(c)] = "done"
    /\ pc' = [u \in Threads |-> IF u[1] = c THEN "idle" ELSE pc[u]]
    /\ frame' = [u \in Threads |-> IF u[1] = c THEN NoFrame ELSE frame[u]]
    /\ out' = [u \in Threads |-> IF u[1] = c THEN NoOutcome ELSE out[u]]
    /\ seen' = [u \in Threads |-> IF u[1] = c THEN NotSeen ELSE seen[u]]
    /\ wrote' = [u \in Threads |-> IF u[1] = c THEN "none" ELSE wrote[u]]
    /\ invoked' = [invoked EXCEPT ![c] = Empty]
    /\ closed' = [closed EXCEPT ![c] = FALSE]
    /\ UNCHANGED <<movieProviders, store, lastWritten>>

\* A step of one of the caller's threads inside a single-provider operation.
ProviderStep(c) ==
    \E t \in Threads :
      /\ t[1] = c
      /\ \/ SearchMovieQuery(t)
         \/ SearchMovieSearch(t)
         \/ GetInfoQuery(t)
         \/ GetInfoFetch(t)
         \/ GetInfoSave(t)

\* A step of the caller inside SearchMovieAll.
FanOutStep(c) ==
    \/ SearchAllQuery(c)
    \/ FanOut(c)
    \/ \E p \in ProviderNames : Receive(c, p)
    \/ CloseRespCh(c)
    \/ RangeEnd(c)

\* The history of caller c1's calls: kept when a call begins and when its
\* result is taken, untouched in between.
RecordCall == atCall' = store /\ UNCHANGED prev
RecordStep == UNCHANGED <<atCall, prev>>
RecordForget == atCall' = Empty /\ UNCHANGED prev
RecordReturn ==
    LET t == MainOf("c1")
    IN  /\ atCall' = Empty
        /\ prev' = IF /\ frame[t].op = "GetMovieInfoByID"
                      /\ frame[t].lazy
                      /\ out[t].err = Nil
                      /\ Valid(out[t].info)
                      /\ wrote[t] = "ok"
                   THEN PrevCall(frame[t].raw, frame[t].name, out[t].info,
                                 Len(invoked["c1"]), atCall = Empty)
                   ELSE NoPrev

\* One caller issuing the three operations one after the other; inside
\* SearchMovieAll the goroutines of the fan-out run concurrently.
Next ==
    \/ \E raw \in Keywords, name \in Names, lazy \in BOOLEAN :
         CallSearchMovie("c1", raw, name, lazy) /\ RecordCall
    \/ \E raw \in Keywords, lazy \in BOOLEAN :
         CallSearchMovieAll("c1", raw, lazy) /\ RecordCall
    \/ \E raw \in RawIDs, name \in Names, lazy \in BOOLEAN :
         CallGetMovieInfoByID("c1", raw, name, lazy) /\ RecordCall
    \/ ProviderStep("c1") /\ RecordStep
    \/ FanOutStep("c1") /\ RecordStep
    \/ Return("c1") /\ RecordForget

Spec == Init /\ [][Next]_vars

\* One caller issuing GetMovieInfoByID again and again, each call remembered
\* when the next one is made.
NextTwice ==
    \/ \E raw \in RawIDs, name \in Names, lazy \in BOOLEAN :
         CallGetMovieInfoByID("c1", raw, name, lazy) /\ RecordCall
    \/ GetInfoQuery(MainOf("c1")) /\ RecordStep
    \/ GetInfoFetch(MainOf("c1")) /\ RecordStep
    \/ GetInfoSave(MainOf("c1")) /\ RecordStep
    \/ Return("c1") /\ RecordReturn

SpecTwice == Init /\ [][NextTwice]_vars

\* Two callers running GetMovieInfoByID concurrently.
NextRace ==
    \E c \in Callers :
      \/ \E raw \in RawIDs, name \in Names, lazy \in BOOLEAN :
           CallGetMovieInfoByID(c, raw, name, lazy) /\ RecordStep
      \/ GetInfoQuery(MainOf(c)) /\ RecordStep
      \/ GetInfoFetch(MainOf(c)) /\ RecordStep
      \/ GetInfoSave(MainOf(c)) /\ RecordStep
      \/ Return(c) /\ RecordStep

SpecRace == Init /\ [][NextRace]_vars

\* An engine constructed with any registry over the providers that exist,
\* the empty one included.
InitRegistry ==
    /\ movieProviders \in SUBSET ProviderNames
    /\ store \in SeedStores
    /\ lastWritten = {}
    /\ pc = [t \in Threads |-> "idle"]
    /\ frame = [t \in Threads |-> NoFrame]
    /\ out = [t \in Threads |-> NoOutcome]
    /\ seen = [t \in Threads |-> NotSeen]
    /\ wrote = [t \in Threads |-> "none"]
    /\ invoked = [c \in Callers |-> Empty]
    /\ closed = [c \in Callers |-> FALSE]
    /\ atCall = Empty
    /\ prev = NoPrev

\* The steps of one goroutine of c1's fan-out: searchMovie(keyword, p, false)
\* and the send of its response, taken by the range over respCh.
TaskStep(p) ==
    \/ SearchMovieSearch(TaskOf("c1", p)) /\ RecordStep
    \/ GetInfoQuery(TaskOf("c1", p)) /\ RecordStep
    \/ GetInfoFetch(TaskOf("c1", p)) /\ RecordStep
    \/ GetInfoSave(TaskOf("c1", p)) /\ RecordStep
    \/ Receive("c1", p) /\ RecordStep

\* The steps of SearchMovieAll's own goroutine and of the one that closes respCh.
JoinStep ==
    \/ SearchAllQuery("c1") /\ RecordStep
    \/ FanOut("c1") /\ RecordStep
    \/ CloseRespCh("c1") /\ RecordStep
    \/ RangeEnd("c1") /\ RecordStep

\* One call of SearchMovieAll, up to its return.
NextAll ==
    \/ \E raw \in Keywords, lazy \in BOOLEAN :
         CallSearchMovieAll("c1", raw, lazy) /\ RecordCall
    \/ \E p \in ProviderNames : TaskStep(p)
    \/ JoinStep

\* Every goroutine that can run is scheduled, and every call to a provider
\* or to the store returns.
SpecAll ==
    /\ InitRegistry
    /\ [][NextAll]_vars
    /\ \A p \in ProviderNames : WF_vars(TaskStep(p))
    /\ WF_vars(JoinStep)

\* ------------------------------------------------------------------ claims
\* The claims below speak of caller c1 under Spec, of both callers under
\* SpecRace.
M == MainOf("c1")
IsDone == pc[M] = "done"
StoredRows(st) == {st[i] : i \in DOMAIN st}
NoQueryFailed == \A t \in Threads : seen[t].q # "fail"
\* Nothing of the call has touched the store or launched a goroutine.
StoreUntouched ==
    /\ store = atCall
    /\ \A t \in Threads :
         t[1] = "c1" => /\ seen[t] = NotSeen
                        /\ wrote[t] = "none"
                        /\ (IsTask(t) => pc[t] = "idle")

\* The store held, when the call began, a valid row matching the request as
\* C1 words it.
C1_MatchingValid ==
    LET f == frame[M]
    IN  \E r \in StoredRows(atCall) :
          /\ Valid(r)
          /\ \/ f.op = "GetMovieInfoByID" /\ r.provider = f.name /\ r.id = f.id
             \/ f.op = "SearchMovie" /\ r.provider = f.name
                                     /\ MatchKeyword(r, f.keyword)
             \/ f.op = "SearchMovieAll" /\ MatchKeyword(r, f.keyword)

\* C1 as stated: a lazy call made while the store holds a valid row matching
\* the request (provider and normalized ID for GetMovieInfoByID, number or ID
\* equal to the keyword ignoring case for the searches) invokes no provider
\* capability; calls whose cache query could not run are left out.
C1_Original ==
    frame[M].lazy /\ C1_MatchingValid /\ NoQueryFailed => invoked["c1"] = Empty

\* The rows that short-circuit a lazy call: for GetMovieInfoByID and for
\* SearchMovie on a fetch-only provider a valid row of the provider under the
\* normalized ID; for SearchMovie on a searcher rows of the provider matching
\* the keyword, all of them valid; for SearchMovieAll any matching row.
C1_Hit ==
    LET f == frame[M]
        rows == StoredRows(atCall)
        own == {r \in rows : r.provider = f.name /\ MatchKeyword(r, f.keyword)}
    IN  \/ /\ f.op = "GetMovieInfoByID" \/ (f.op = "SearchMovie" /\ ~IsSearcher(f.name))
           /\ \E r \in rows : Valid(r) /\ r.provider = f.name /\ r.id = f.id
        \/ /\ f.op = "SearchMovie" /\ IsSearcher(f.name)
           /\ own # {}
           /\ \A r \in own : Valid(r)
        \/ /\ f.op = "SearchMovieAll"
           /\ \E r \in rows : MatchKeyword(r, f.keyword)

\* C1 (amended): a lazy call whose cache query runs and finds such rows
\* invokes no provider search or fetch.
C1_CacheShortCircuit ==
    frame[M].lazy /\ C1_Hit /\ NoQueryFailed => invoked["c1"] = Empty

\* A lazy SearchMovie on the searcher answered from the cache.
C1_Witness ==
    /\ IsDone
    /\ frame[M].op = "SearchMovie" /\ frame[M].name = "A" /\ frame[M].lazy
    /\ seen[M].q = "ok" /\ Valid(seen[M].first)
    /\ out[M].results = <<ToSearchResult(seen[M].first)>>
    /\ invoked["c1"] = Empty

\* C2: every Info the engine has upserted is valid, so every row of the store
\* that was not there before the first call is valid.
C2_StoreValid ==
    /\ \A r \in lastWritten : Valid(r)
    /\ \A r \in StoredRows(store) : r \in SeedInfos \/ Valid(r)

\* A fetch answered with an Info that fails validation, and nothing was saved.
C2_Witness ==
    /\ IsDone
    /\ frame[M].op = "GetMovieInfoByID"
    /\ invoked["c1"] # Empty
    /\ out[M].err = Nil /\ ~Valid(out[M].info)
    /\ wrote[M] = "none"

\* C3 as stated: an Info fetched during the call that fails validation is
\* not what GetMovieInfoByID returns with a nil error, nor what SearchMovie
\* on a fetch-only provider returns wrapped as a result.
C3_Original ==
    IsDone /\ out[M].err = Nil /\ invoked["c1"] # Empty =>
        /\ frame[M].op = "GetMovieInfoByID" => Valid(out[M].info)
        /\ frame[M].op = "SearchMovie" /\ ~IsSearcher(frame[M].name) =>
             \A i \in DOMAIN out[M].results : Valid(out[M].results[i])

\* C4 as stated: SearchMovieAll never returns an empty list with a nil error.
C4_Original ==
    IsDone /\ frame[M].op = "SearchMovieAll" /\ out[M].err = Nil =>
        out[M].results # Empty

\* The results of the finished fan-out of c1, per provider.
FanOutDone == IsDone /\ frame[M].op = "SearchMovieAll" /\ closed["c1"]
TaskFailed(p) == out[TaskOf("c1", p)].err # Nil
ValidOf(p) ==
    IF TaskFailed(p) THEN Empty ELSE SelectSeq(out[TaskOf("c1", p)].results, Valid)
CountIn(rs, x) == Cardinality({i \in DOMAIN rs : rs[i] = x})
Ranked(keyword, rs) ==
    \A i, j \in DOMAIN rs : i < j => Weight(keyword, rs[i]) >= Weight(keyword, rs[j])

\* C5: when a provider of the fan-out fails, every goroutine has still handed
\* over its response, the list returned holds exactly the valid results of
\* the providers that did not fail, in non-increasing weight, and the call
\* fails (with ErrNotFound) only if there is no such result.
C5_PartialFailure ==
    FanOutDone /\ (\E p \in movieProviders : TaskFailed(p)) =>
        LET final == out[M].results
            all == Range(final) \cup UNION {Range(ValidOf(p)) : p \in movieProviders}
        IN  /\ \A p \in movieProviders : pc[TaskOf("c1", p)] = "exit"
            /\ out[M].err \in {Nil, ErrNotFound}
            /\ \A x \in all : /\ x.provider \in movieProviders
                              /\ CountIn(final, x) = CountIn(ValidOf(x.provider), x)
            /\ Ranked(frame[M].keyword, final)
            /\ out[M].err # Nil => \A p \in movieProviders : ValidOf(p) = Empty

\* The searcher failed, the fetch-only provider's result is returned.
C5_Witness ==
    /\ FanOutDone
    /\ TaskFailed("A") /\ ~TaskFailed("C")
    /\ out[M].err = Nil
    /\ out[M].results = ValidOf("C") /\ out[M].results # Empty

\* C6: the store never holds two rows of one (provider, id), the row of a key
\* the engine has written carries the values of the latest write, and a
\* thread whose upsert succeeded finds its key in the store.
C6_UpsertUnique ==
    /\ NoDuplicateKey(store)
    /\ \A r \in lastWritten : r \in StoredRows(store)
    /\ \A t \in Threads : wrote[t] = "ok" => HasKey(store, <<frame[t].name, frame[t].id>>)

\* Two callers missed the cache for the same key, fetched different values
\* and both saved.
C6_Witness ==
    LET t1 == MainOf("c1")
        t2 == MainOf("c2")
    IN  /\ pc[t1] = "done" /\ pc[t2] = "done"
        /\ frame[t1].name = frame[t2].name /\ frame[t1].id = frame[t2].id
        /\ seen[t1].q = "ok" /\ seen[t1].rows = Empty
        /\ seen[t2].q = "ok" /\ seen[t2].rows = Empty
        /\ wrote[t1] = "ok" /\ wrote[t2] = "ok"
        /\ out[t1].info # out[t2].info
        /\ Len(store) = 1

\* C7: a lazy GetMovieInfoByID that gets a valid Info from the provider and
\* saves it has invoked the provider once and returns the row now stored;
\* the same call made again next returns that row and invokes no provider,
\* one invocation over the two calls (the store answering its queries).
C7_FetchThenHit ==
    LET f == frame[M]
        lazyGet == IsDone /\ f.op = "GetMovieInfoByID" /\ f.lazy
    IN  /\ lazyGet /\ invoked["c1"] # Empty /\ out[M].err = Nil /\ wrote[M] = "ok" =>
              /\ invoked["c1"] = << <<f.name, "fetch">> >>
              /\ Valid(out[M].info)
              /\ out[M].info \in StoredRows(store)
        /\ lazyGet /\ prev # NoPrev /\ prev.raw = f.raw /\ prev.name = f.name
                   /\ seen[M].q = "ok" =>
              /\ invoked["c1"] = Empty
              /\ out[M].err = Nil
              /\ out[M].info = prev.info
              /\ prev.calls = 1

\* The second of two identical lazy calls, the first made on an empty store.
C7_Witness ==
    /\ IsDone
    /\ frame[M].op = "GetMovieInfoByID" /\ frame[M].lazy
    /\ prev.fresh /\ prev.raw = frame[M].raw /\ prev.name = frame[M].name
    /\ prev.calls = 1
    /\ invoked["c1"] = Empty
    /\ out[M].err = Nil /\ out[M].info = prev.info

\* C8: a search whose keyword is empty or blank has failed with
\* ErrInvalidKeyword, without a provider call and without the store being
\* read or written.
C8_InvalidKeyword ==
    frame[M].op \in {"SearchMovie", "SearchMovieAll"} /\ Trim(frame[M].raw) = Empty =>
        /\ IsDone
        /\ out[M].err = ErrInvalidKeyword /\ out[M].results = Empty
        /\ invoked["c1"] = Empty
        /\ StoreUntouched

\* SearchMovieAll of a blank keyword on a store that holds a row.
C8_Witness ==
    /\ IsDone
    /\ frame[M].op = "SearchMovieAll" /\ frame[M].raw = Str(" ")
    /\ out[M].err = ErrInvalidKeyword
    /\ store # Empty

\* C9 as stated: with a name that is not registered SearchMovie and
\* GetMovieInfoByID fail with the provider-not-found error for every keyword
\* or ID, no provider invoked, the store untouched.
C9_Original ==
    frame[M].op \in {"SearchMovie", "GetMovieInfoByID"}
        /\ frame[M].name \notin movieProviders =>
        /\ IsDone
        /\ out[M].err = ErrProviderNotFound
        /\ invoked["c1"] = Empty
        /\ StoreUntouched

\* C9 (amended): the same, for GetMovieInfoByID with every ID and for
\* SearchMovie with every keyword that is not empty once trimmed.
C9_ProviderNotFound ==
    /\ frame[M].op \in {"SearchMovie", "GetMovieInfoByID"}
    /\ frame[M].name \notin movieProviders
    /\ (frame[M].op = "SearchMovie" => Trim(frame[M].raw) # Empty)
    => /\ IsDone
       /\ out[M].err = ErrProviderNotFound
       /\ invoked["c1"] = Empty
       /\ StoreUntouched

\* SearchMovie of a keyword with a name that is not registered.
C9_Witness ==
    /\ IsDone
    /\ frame[M].op = "SearchMovie" /\ frame[M].name = "Z" /\ frame[M].raw = Str("b")
    /\ out[M].err = ErrProviderNotFound
    /\ store # Empty

\* The lazy SearchMovieAll of c1 whose cache query found rows.
LazyAllHit ==
    /\ IsDone
    /\ frame[M].op = "SearchMovieAll" /\ frame[M].lazy
    /\ seen[M].q = "ok" /\ seen[M].rows # Empty
Converted == [i \in DOMAIN seen[M].rows |-> ToSearchResult(seen[M].rows[i])]
NoFanOut ==
    /\ invoked["c1"] = Empty
    /\ \A p \in ProviderNames : pc[TaskOf("c1", p)] = "idle"

\* C10 as stated: the rows found are returned converted, in storage order,
\* unfiltered and unsorted, with no fan-out.
C10_Original ==
    LazyAllHit => NoFanOut /\ out[M].err = Nil /\ out[M].results = Converted

PosIn(rs, x) == CHOOSE i \in DOMAIN rs : rs[i] = x

\* C10 (amended): there is no fan-out, but the post-processing runs: the
\* rows that fail validation are dropped and the others are returned by
\* non-increasing weight, equal weights in storage order; when a valid row
\* names a provider that is not registered the priority lookup panics.
C10_CacheRanked ==
    LazyAllHit =>
        LET valid == SelectSeq(Converted, Valid)
            final == out[M].results
            w(x) == Weight(frame[M].keyword, x)
        IN  /\ NoFanOut
            /\ IF \A i \in DOMAIN valid : valid[i].provider \in movieProviders
               THEN /\ out[M].err = Nil
                    /\ Len(final) = Len(valid)
                    /\ Range(final) = Range(valid)
                    /\ \A i, j \in DOMAIN final : i < j =>
                         \/ w(final[i]) > w(final[j])
                         \/ /\ w(final[i]) = w(final[j])
                            /\ PosIn(valid, final[i]) < PosIn(valid, final[j])
               ELSE out[M].err = Panic

\* Two rows found, returned in the opposite of their storage order.
C10_Witness ==
    /\ LazyAllHit
    /\ out[M].err = Nil
    /\ Len(out[M].results) = 2 /\ Len(seen[M].rows) = 2
    /\ out[M].results[1] = ToSearchResult(seen[M].rows[2])
    /\ out[M].results[2] = ToSearchResult(seen[M].rows[1])

\* The step in which the range over respCh ends and the deferred
\* post-processing hands the list of the fan-out to the caller.
FanOutReturns == pc[M] = "all_recv" /\ pc'[M] = "done"

\* C11 as stated: the list a successful fan-out returns is ranked, and of two
\* results of equal similarity the one of the provider of priority 2 never
\* comes after the one of the provider of priority 1.
C11_Original ==
    FanOutDone /\ out[M].err = Nil =>
        LET final == out[M].results
            sim(x) == Similarity(frame[M].keyword, x.number)
        IN  /\ Ranked(frame[M].keyword, final)
            /\ \A i, j \in DOMAIN final :
                  /\ sim(final[i]) = sim(final[j])
                  /\ Priority(final[i].provider) < Priority(final[j].provider)
                  => j < i

\* C11 (amended): the list a successful fan-out returns holds exactly the
\* valid results collected, by non-increasing weight, results of equal weight
\* in the order they were collected; of two results of equal similarity above
\* zero the one of the provider of higher priority comes first.
C11_RankingOrder ==
    [][FanOutReturns /\ out'[M].err = Nil =>
         LET collected == SelectSeq(out[M].results, Valid)
             final == out'[M].results
             w(x) == Weight(frame[M].keyword, x)
             sim(x) == Similarity(frame[M].keyword, x.number)
         IN  /\ Len(final) = Len(collected)
             /\ \A x \in Range(final) \cup Range(collected) :
                   CountIn(final, x) = CountIn(collected, x)
             /\ \A i, j \in DOMAIN final : i < j =>
                   \/ w(final[i]) > w(final[j])
                   \/ /\ w(final[i]) = w(final[j])
                      /\ PosIn(collected, final[i]) < PosIn(collected, final[j])
             /\ \A i, j \in DOMAIN final :
                   /\ sim(final[i]) = sim(final[j]) /\ sim(final[i]) > 0
                   /\ Priority(final[i].provider) < Priority(final[j].provider)
                   => j < i]_vars

\* Both providers answered with a result of the same similarity above zero,
\* and the result of the provider of priority 2 is returned first.
C11_Witness ==
    /\ FanOutDone /\ out[M].err = Nil
    /\ Len(out[M].results) = 2
    /\ out[M].results[1].provider = "C" /\ out[M].results[2].provider = "A"
    /\ Similarity(frame[M].keyword, out[M].results[1].number) = 2
    /\ Similarity(frame[M].keyword, out[M].results[2].number) = 2

InFanOut == pc[M] \in {"all_fanout", "all_recv"}
Blocked(p) == pc[TaskOf("c1", p)] = "send"

\* C12: a SearchMovieAll that has started returns; a goroutine of the
\* fan-out that sends its response gets rid of it; and a fan-out over an
\* empty registry has returned no result and ErrNotFound.
C12_FanOutTerminates ==
    /\ (pc[M] \in {"all_db", "all_fanout", "all_recv"}) ~> IsDone
    /\ \A p \in ProviderNames : Blocked(p) ~> (pc[TaskOf("c1", p)] = "exit")
    /\ [](FanOutDone /\ movieProviders = {} =>
             out[M].results = Empty /\ out[M].err = ErrNotFound)

\* The fan-out of an engine without providers has returned.
C12_Witness ==
    /\ FanOutDone
    /\ movieProviders = {}
    /\ out[M].err = ErrNotFound

Launched(p) == pc[TaskOf("c1", p)] # "idle"
\* What the goroutine of provider p has handed over so far.
Delivered(p) ==
    IF pc[TaskOf("c1", p)] = "exit" /\ ~TaskFailed(p)
    THEN out[TaskOf("c1", p)].results ELSE Empty

\* C13: a goroutine runs only for a registered provider and only inside the
\* fan-out, where each registered provider has one; respCh is closed only
\* when every goroutine has handed over its response; a SearchMovieAll that
\* was not answered from the cache returns only after that; and what the
\* range has collected holds each response handed over exactly once.
C13_FanOutJoin ==
    /\ \A p \in ProviderNames :
          Launched(p) => p \in movieProviders /\ pc[M] \in {"all_recv", "done"}
    /\ pc[M] = "all_recv" => \A p \in movieProviders : Launched(p)
    /\ closed["c1"] => \A p \in movieProviders : pc[TaskOf("c1", p)] = "exit"
    /\ IsDone /\ frame[M].op = "SearchMovieAll" /\ frame[M].keyword # Empty
              /\ ~LazyAllHit =>
          /\ closed["c1"]
          /\ \A p \in movieProviders : pc[TaskOf("c1", p)] = "exit"
    /\ pc[M] = "all_recv" =>
          LET collected == out[M].results
              all == Range(collected) \cup UNION {Range(Delivered(p)) : p \in movieProviders}
          IN  \A x \in all : /\ x.provider \in movieProviders
                              /\ CountIn(collected, x) = CountIn(Delivered(x.provider), x)

\* The fan-out over two providers has returned the results of both.
C13_Witness ==
    /\ FanOutDone
    /\ movieProviders = ProviderNames
    /\ \A p \in ProviderNames : pc[TaskOf("c1", p)] = "exit" /\ ValidOf(p) # Empty
    /\ Len(out[M].results) = Len(ValidOf("A")) + Len(ValidOf("C"))

\* The provider's fetch of c1's GetMovieInfoByID has failed.
FetchFailed ==
    /\ frame[M].op = "GetMovieInfoByID"
    /\ pc[M] \in {"gi_defer", "done"}
    /\ invoked["c1"] # Empty
    /\ out[M].err # Nil

\* C14: when the provider's fetch fails inside GetMovieInfoByID the provider
\* was invoked once, nothing was written and the store is as it was when the
\* call began; the call returns with the error the fetch returned, in a step
\* that invokes nothing and leaves the store alone.
C14_FetchError ==
    /\ [](FetchFailed =>
             /\ invoked["c1"] = << <<frame[M].name, "fetch">> >>
             /\ out[M].err = ErrProvider
             /\ wrote[M] = "none"
             /\ store = atCall)
    /\ [][FetchFailed /\ pc[M] = "gi_defer" =>
             /\ pc'[M] = "done"
             /\ out'[M].err = out[M].err
             /\ invoked' = invoked
             /\ store' = store]_vars

\* A lazy GetMovieInfoByID missed the cache of a store that holds a row, and
\* has returned the error of the fetch.
C14_Witness ==
    /\ IsDone /\ FetchFailed
    /\ frame[M].lazy /\ seen[M].q = "ok"
    /\ out[M].err = ErrProvider
    /\ store # Empty

\* What the calls return when the store holds no row, for every answer the
\* providers may give.
Wrapped(o) ==
    IF o.err # Nil THEN Outcome(Empty, ZeroInfo, o.err)
    ELSE Outcome(<<ToSearchResult(o.info)>>, ZeroInfo, Nil)
SearchOnEmpty(p, keyword) ==
    IF IsSearcher(p) THEN SearchOutcomes(p)
    ELSE IF NormalizeID(p, keyword) = Empty
    THEN {Outcome(Empty, ZeroInfo, ErrInvalidID)}
    ELSE {Wrapped(o) : o \in FetchOutcomes(p, NormalizeID(p, keyword))}
Collected(o) == IF o.err # Nil THEN Empty ELSE o.results
AllOnEmpty(keyword) ==
    UNION {{PostProcess(keyword, Collected(a) \o Collected(c), Nil),
            PostProcess(keyword, Collected(c) \o Collected(a), Nil)} :
           a \in SearchOnEmpty("A", keyword), c \in SearchOnEmpty("C", keyword)}

\* The cache query of c1's call could not run, or found no row (First()
\* reports that as an error too).
ReadFailed == seen[M].q = "fail" \/ (seen[M].q = "ok" /\ seen[M].rows = Empty)

WriteFailed == frame[M].op = "GetMovieInfoByID" /\ wrote[M] = "fail"

\* C16: a GetMovieInfoByID whose upsert failed has returned, with no error,
\* an Info the provider's fetch may answer, the store as it was; and the
\* step that saves and returns hands on the Info the fetch left, whether
\* the upsert succeeds or not.
C16_WriteFailure ==
    /\ [](WriteFailed =>
             /\ IsDone
             /\ out[M].err = Nil
             /\ Outcome(Empty, out[M].info, Nil) \in FetchOutcomes(frame[M].name, frame[M].id)
             /\ invoked["c1"] = << <<frame[M].name, "fetch">> >>
             /\ store = atCall)
    /\ [][/\ frame[M].op = "GetMovieInfoByID"
           /\ pc[M] = "gi_defer" /\ out[M].err = Nil
           => /\ pc'[M] = "done"
              /\ out'[M].info = out[M].info
              /\ out'[M].err = Nil]_vars

\* The provider answered with a valid Info, the upsert failed on a store
\* that had room for it, and the Info was returned.
C16_Witness ==
    /\ IsDone /\ WriteFailed
    /\ Valid(out[M].info) /\ out[M].err = Nil
    /\ Len(store) < MaxRows
    /\ ~HasKey(store, Key(out[M].info))

\* C17: while c1 runs SearchMovie on a provider that searches by keyword the
\* store stays as it was when the call began; and every step that changes
\* the store is the deferred save of a getMovieInfoByID, upserting the Info
\* the provider's fetch by ID has just answered.
C17_SearchNotCached ==
    /\ [](frame[M].op = "SearchMovie" /\ IsSearcher(frame[M].name) =>
             store = atCall /\ wrote[M] = "none")
    /\ [][store' # store =>
             \E t \in Threads :
               /\ pc[t] = "gi_defer" /\ pc'[t] # "gi_defer"
               /\ <<frame[t].name, "fetch">> \in Range(invoked[t[1]])
               /\ Outcome(Empty, out[t].info, Nil)
                    \in FetchOutcomes(frame[t].name, frame[t].id)
               /\ store' = Upsert(store, out[t].info)]_vars

\* The searcher answered a SearchMovie with a valid result the store does
\* not hold.
C17_Witness ==
    /\ IsDone
    /\ frame[M].op = "SearchMovie" /\ IsSearcher(frame[M].name)
    /\ invoked["c1"] = << <<frame[M].name, "search">> >>
    /\ out[M].err = Nil /\ out[M].results # Empty
    /\ Valid(out[M].results[1])
    /\ ~HasKey(store, Key(out[M].results[1]))

\* C18 as stated: a SearchMovie called with lazy = false that returns results
\* has read no cache and has invoked the provider, and in the fan-out every
\* goroutine that hands over results has invoked its provider, the
\* providers that only fetch by ID included.
C18_Original ==
    /\ IsDone /\ frame[M].op = "SearchMovie" /\ ~frame[M].lazy /\ out[M].err = Nil =>
          /\ seen[M] = NotSeen
          /\ invoked["c1"] # Empty
    /\ FanOutDone =>
          \A p \in movieProviders :
            ~TaskFailed(p) =>
              \E cap \in {"search", "fetch"} : <<p, cap>> \in Range(invoked["c1"])

\* What SearchMovieAll returns for the responses the two goroutines of c1's
\* fan-out have prepared, when the first of them is taken first.
ReturnedIf(first, second) ==
    PostProcess(frame[M].keyword,
                Collected(out[TaskOf("c1", first)]) \o Collected(out[TaskOf("c1", second)]),
                Nil)

\* C19: what the fan-out returns is what the responses of the goroutines
\* give in one of the two orders they can be taken in, and the two orders
\* give the same error, the same results with the same multiplicities, and
\* lists that differ only where the results have equal weight.
C19_OrderIndependent ==
    FanOutDone /\ movieProviders = ProviderNames =>
        LET ac == ReturnedIf("A", "C")
            ca == ReturnedIf("C", "A")
            w(x) == Weight(frame[M].keyword, x)
        IN  /\ out[M] \in {ac, ca}
            /\ ac.err = ca.err
            /\ Len(ac.results) = Len(ca.results)
            /\ \A x \in Range(ac.results) \cup Range(ca.results) :
                  CountIn(ac.results, x) = CountIn(ca.results, x)
            /\ \A i \in DOMAIN ac.results :
                  ac.results[i] # ca.results[i] => w(ac.results[i]) = w(ca.results[i])

\* The two orders give different lists, and the fan-out has returned the
\* one of the fetch-only provider answering first.
C19_Witness ==
    /\ FanOutDone /\ movieProviders = ProviderNames
    /\ ReturnedIf("A", "C") # ReturnedIf("C", "A")
    /\ out[M] = ReturnedIf("C", "A")

\* C20 as stated: the post-processing of SearchMovieAll never looks up the
\* priority of a provider that is not registered, whether the results come
\* from the fan-out or from the cache.
C20_Original ==
    IsDone /\ frame[M].op = "SearchMovieAll" => out[M].err # Panic

====
